---- MODULE Spec2Model ----
(***************************************************************************)
(* Bracketing 7-bits dependency encoding (codelin/encs/enc_deps/           *)
(* brk_7bits.py): two-plane partition of the arcs, bracket encoding of     *)
(* each plane, merge of the bracket characters and the four stack-based    *)
(* decoding passes; and the batch sampler of the multitask trainer         *)
(* (hfmtl/models.py, MultitaskDataloader).                                 *)
(*                                                                         *)
(* Strings are sequences of one-character strings; a list of strings is a  *)
(* sequence of such sequences.  Python list index k is TLA+ index k + 1.   *)
(***************************************************************************)
EXTENDS Integers, Sequences, FiniteSets, TLC

VARIABLES
    pc,            \* position of the program
    planar_alg,    \* self.planar_alg
    dep_tree,      \* the tree given to encode: [n, head]
    p1_nodes,      \* plane 0 view (node ids in iteration order)
    p2_nodes,      \* plane 1 view
    labels_brk,    \* fragment buffers of encode, indexed by node id
    lin_tree,      \* the LinearizedTree: sequence of rows
    decoded_tree,  \* the decode target, indexed by node id
    pass,          \* which of the four decoding passes runs (1..4)
    stack,         \* _decoding_step: stack, as the last pass left it
    raised,        \* "none" or the exception that ended the call
    brks,          \* _merge_brackets: the argument
    merged,        \* _merge_brackets: results of successive applications
    dataloader,    \* the MultitaskDataloader object (self)
    iteration      \* the running generator of MultitaskDataloader.__iter__

vars == <<pc, planar_alg, dep_tree, p1_nodes, p2_nodes, labels_brk, lin_tree,
          decoded_tree, pass, stack, raised, brks, merged, dataloader, iteration>>

-----------------------------------------------------------------------------
(* Bounds *)

MaxN == 5          \* largest number of words of an encoded tree
MaxRows == 2       \* largest number of rows of a hand-made label sequence
MaxChars == 4      \* largest total number of payload characters in it
MaxMalN == 4       \* largest number of words of a malformed tree
MaxOrdRows == 2    \* largest number of rows of a sequence built from tokens
MaxOrdToks == 3    \* largest number of bracket tokens in it
MaxBatches == 3    \* largest number of batches of a task's data loader
MaxFrag == 4       \* longest fragment given to _merge_brackets alone

-----------------------------------------------------------------------------
(* Constants of the program *)

D_2P_GREED == "GREED"
D_2P_PROP == "PROPAGATE"
D_NONE_LABEL == <<"-", "N", "O", "N", "E", "-">>

BrkChars == {"<", ">", "/", "\\", "0", "1", "*"}

\* mutant of BrkCharsOfPlane: the first step is given the brackets of plane 1
BrkCharsOfPlaneSame(p) ==
    << <<"<", "1">>, <<"\\", "1">>, <<">", "1">>, <<"/", "1">> >>

\* brk_chars of the two encoding steps: [<p, \p, >p, /p]
BrkCharsOfPlane(p) ==
    IF p = 0 THEN << <<"<", "0">>, <<"\\", "0">>, <<">", "0">>, <<"/", "0">> >>
             ELSE << <<"<", "1">>, <<"\\", "1">>, <<">", "1">>, <<"/", "1">> >>

\* the arguments of the four _decoding_step calls of decode
Passes == << [planar_idx |-> "0", direction |-> "l2r"],
             [planar_idx |-> "0", direction |-> "r2l"],
             [planar_idx |-> "1", direction |-> "l2r"],
             [planar_idx |-> "1", direction |-> "r2l"] >>

-----------------------------------------------------------------------------
(* Python strings and lists *)

\* code point of a character (order of str comparison)
Ord(c) ==
    CASE c = "*" -> 42 [] c = "-" -> 45 [] c = "/" -> 47 [] c = "0" -> 48
      [] c = "1" -> 49 [] c = "<" -> 60 [] c = ">" -> 62 [] c = "\\" -> 92
      [] OTHER -> 100

\* s < t for Python strings
RECURSIVE StrLess(_, _)
StrLess(s, t) ==
    IF t = <<>> THEN FALSE
    ELSE IF s = <<>> THEN TRUE
    ELSE IF Ord(Head(s)) # Ord(Head(t)) THEN Ord(Head(s)) < Ord(Head(t))
    ELSE StrLess(Tail(s), Tail(t))

\* pat in s (substring test)
StrIn(pat, s) ==
    \E i \in 0..(Len(s) - Len(pat)) :
        \A k \in 1..Len(pat) : s[i + k] = pat[k]

\* "".join(list)
RECURSIVE Concat(_)
Concat(l) == IF l = <<>> THEN <<>> ELSE Head(l) \o Concat(Tail(l))

\* list(s)
ListOfStr(s) == [i \in 1..Len(s) |-> <<s[i]>>]

\* [x for x in l if x != ""]
RECURSIVE DropEmpty(_)
DropEmpty(l) ==
    IF l = <<>> THEN <<>>
    ELSE IF Head(l) = <<>> THEN DropEmpty(Tail(l))
    ELSE <<Head(l)>> \o DropEmpty(Tail(l))

\* position of Python index k in a list of length n (0 when out of range:
\* the access raises IndexError)
PyIndex(k, n) ==
    IF k >= 0 THEN (IF k < n THEN k + 1 ELSE 0)
    ELSE (IF k + n >= 0 THEN k + n + 1 ELSE 0)

\* all strings over S of length at most n
RECURSIVE StringsUpTo(_, _)
StringsUpTo(S, n) ==
    IF n = 0 THEN {<<>>}
    ELSE LET shorter == StringsUpTo(S, n - 1)
         IN  shorter \cup { Append(s, c) : s \in {t \in shorter : Len(t) = n - 1}, c \in S }

-----------------------------------------------------------------------------
(* _merge_brackets *)

\* the body of the loop for index i: [b |-> list, err |-> raised IndexError]
MergeAt(b, i) ==
    LET n == Len(b)
        isDigit == b[i + 1] \in {<<"1">>, <<"0">>}
        j1 == PyIndex(i - 1, n)
        b1 == IF isDigit
              THEN [[b EXCEPT ![j1] = b[j1] \o b[i + 1]] EXCEPT ![i + 1] = <<>>]
              ELSE b
        isStar == b1[i + 1] = <<"*">>
        j2 == PyIndex(i - 2, n)
    IN  IF isStar /\ j2 = 0 THEN [b |-> b1, err |-> TRUE]
        ELSE IF isStar
        THEN [b |-> [[b1 EXCEPT ![j2] = b1[j2] \o <<"*">>] EXCEPT ![i + 1] = <<>>],
              err |-> FALSE]
        ELSE [b |-> b1, err |-> FALSE]

RECURSIVE MergeLoop(_, _)
MergeLoop(b, i) ==
    IF i >= Len(b) THEN [b |-> b, err |-> FALSE]
    ELSE LET r == MergeAt(b, i)
         IN  IF r.err THEN r ELSE MergeLoop(r.b, i + 1)

\* _merge_brackets(brks): [b |-> returned list, err |-> raised IndexError]
MergeBrackets(l) ==
    LET r == MergeLoop(l, 0)
    IN  IF r.err THEN [b |-> <<>>, err |-> TRUE]
        ELSE [b |-> DropEmpty(r.b), err |-> FALSE]

-----------------------------------------------------------------------------
(* Tree model: nodes 0..n, node 0 the dummy root, head[i] the governor of i *)

\* len(dep_tree): the dummy root is a node of the tree
TreeLen(t) == t.n + 1

\* the arcs of the tree, each named by its dependent
Deps(t) == 1..t.n

\* node.word, node.upos, node.relation: opaque values, distinct per node
WordOf(i) == <<"w", i>>
UposOf(i) == <<"t", i>>
RelationOf(i) == <<"r", i>>

\* D_Node.is_left_arc
IsLeftArc(t, d) == t.head[d] > d

SpanLo(t, d) == IF d < t.head[d] THEN d ELSE t.head[d]
SpanHi(t, d) == IF d < t.head[d] THEN t.head[d] ELSE d

\* arc crossing test: the spans interleave
Cross(t, a, b) ==
    \/ /\ SpanLo(t, a) < SpanLo(t, b)
       /\ SpanLo(t, b) < SpanHi(t, a)
       /\ SpanHi(t, a) < SpanHi(t, b)
    \/ /\ SpanLo(t, b) < SpanLo(t, a)
       /\ SpanLo(t, a) < SpanHi(t, b)
       /\ SpanHi(t, b) < SpanHi(t, a)

CrossesAny(t, a, S) == \E b \in S : Cross(t, a, b)

\* the node ids of S in ascending order
RECURSIVE SortedSeq(_)
SortedSeq(S) ==
    IF S = {} THEN <<>>
    ELSE LET m == CHOOSE x \in S : \A y \in S : x <= y
         IN  <<m>> \o SortedSeq(S \ {m})

SeqToSet(s) == { s[i] : i \in 1..Len(s) }

\* following heads from i for k steps reaches the root
RECURSIVE ReachesRoot(_, _, _)
ReachesRoot(head, i, k) ==
    IF i = 0 THEN TRUE
    ELSE IF k = 0 THEN FALSE
    ELSE ReachesRoot(head, head[i], k - 1)

\* well-formed trees of n words: one root-attached node, no cycle
WellFormedTrees(n) ==
    { [n |-> n, head |-> h] :
        h \in { f \in [0..n -> 0..n] :
                  /\ f[0] = 0
                  /\ Cardinality({ i \in 1..n : f[i] = 0 }) = 1
                  /\ \A i \in 1..n : ReachesRoot(f, i, n) } }

-----------------------------------------------------------------------------
(* Two-plane partition *)

\* mutant of GreedyOver: plane 1 takes an arc without the crossing test
RECURSIVE GreedyOverNoTest(_, _, _, _)
GreedyOverNoTest(t, arcs, p0, p1) ==
    IF arcs = <<>> THEN [p0 |-> p0, p1 |-> p1]
    ELSE LET a == Head(arcs)
         IN  IF ~CrossesAny(t, a, p0) THEN GreedyOverNoTest(t, Tail(arcs), p0 \cup {a}, p1)
             ELSE GreedyOverNoTest(t, Tail(arcs), p0, p1 \cup {a})

\* the greedy rule over the arcs of the sequence arcs, in that order
RECURSIVE GreedyOver(_, _, _, _)
GreedyOver(t, arcs, p0, p1) ==
    IF arcs = <<>> THEN [p0 |-> p0, p1 |-> p1]
    ELSE LET a == Head(arcs)
         IN  IF ~CrossesAny(t, a, p0) THEN GreedyOver(t, Tail(arcs), p0 \cup {a}, p1)
             ELSE IF ~CrossesAny(t, a, p1) THEN GreedyOver(t, Tail(arcs), p0, p1 \cup {a})
             ELSE GreedyOver(t, Tail(arcs), p0, p1)

\* D_Tree.two_planar_greedy
TwoPlanarGreedy(t) ==
    LET r == GreedyOver(t, SortedSeq(Deps(t)), {}, {})
    IN  [p1_nodes |-> SortedSeq(r.p0), p2_nodes |-> SortedSeq(r.p1)]

\* connected component of the conflict graph
RECURSIVE Closure(_, _)
Closure(t, S) ==
    LET S2 == S \cup { b \in Deps(t) : CrossesAny(t, b, S) }
    IN  IF S2 = S THEN S ELSE Closure(t, S2)

Components(t) == { Closure(t, {a}) : a \in Deps(t) }

\* breadth-first colouring: frontier has colour c, its uncoloured crossing
\* neighbours get the opposite colour
RECURSIVE Propagate(_, _, _, _)
Propagate(t, frontier, c, col) ==
    LET done == col[0] \cup col[1]
        next == { b \in Deps(t) \ done : CrossesAny(t, b, frontier) }
    IN  IF next = {} THEN col
        ELSE Propagate(t, next, 1 - c, [col EXCEPT ![1 - c] = @ \cup next])

CrossingFree(t, S) == \A a \in S, b \in S : ~Cross(t, a, b)

\* mutant of ColourComponent: the greedy rule for every component
ColourComponentGreedy(t, comp, seed) ==
    GreedyOver(t, SortedSeq(comp), {}, {})

\* the two colour classes of one component, by propagation from seed, or by
\* the greedy rule when the propagation leaves two crossing arcs together
ColourComponent(t, comp, seed) ==
    LET col == Propagate(t, {seed}, 0, [c \in {0, 1} |-> IF c = 0 THEN {seed} ELSE {}])
    IN  IF CrossingFree(t, col[0]) /\ CrossingFree(t, col[1])
        THEN [p0 |-> col[0], p1 |-> col[1]]
        ELSE GreedyOver(t, SortedSeq(comp), {}, {})

\* the choices of seeds: one arc of every component
RECURSIVE SeedSets(_)
SeedSets(comps) ==
    IF comps = {} THEN {{}}
    ELSE LET c == CHOOSE x \in comps : TRUE
         IN  { S \cup {s} : S \in SeedSets(comps \ {c}), s \in c }

SeedChoices(t) == SeedSets(Components(t))

\* D_Tree.two_planar_propagate
TwoPlanarPropagate(t, seeds) ==
    LET parts == { ColourComponent(t, Closure(t, {s}), s) : s \in seeds }
    IN  [p1_nodes |-> SortedSeq(UNION { r.p0 : r \in parts }),
         p2_nodes |-> SortedSeq(UNION { r.p1 : r \in parts })]

\* D_Tree.is_leftmost, D_Tree.is_rightmost on a plane view
IsLeftmost(t, plane, d) ==
    \A i \in 1..Len(plane) : ~(t.head[plane[i]] = t.head[d] /\ plane[i] < d)

IsRightmost(t, plane, d) ==
    \A i \in 1..Len(plane) : ~(t.head[plane[i]] = t.head[d] /\ plane[i] > d)

-----------------------------------------------------------------------------
(* encode *)

\* mutant of EncodeNode: the right-arc branch asks is_leftmost too
EncodeNodeLeftmost(t, plane, lb, bc, d) ==
    IF d = 0 THEN lb
    ELSE IF IsLeftArc(t, d)
    THEN LET own == lb[d] \o bc[1] \o (IF IsLeftmost(t, plane, d) THEN <<"*">> ELSE <<>>)
             lb1 == [lb EXCEPT ![d] = own]
         IN  [lb1 EXCEPT ![t.head[d]] =
                 IF StrIn(bc[2], lb1[t.head[d]]) THEN @ ELSE @ \o bc[2]]
    ELSE LET own == lb[d] \o bc[3] \o (IF IsLeftmost(t, plane, d) THEN <<"*">> ELSE <<>>)
             lb1 == [lb EXCEPT ![d] = own]
         IN  [lb1 EXCEPT ![t.head[d]] =
                 IF StrIn(bc[4], lb1[t.head[d]]) THEN @ ELSE @ \o bc[4]]

\* mutant of EncodeNode: the root-attached node is skipped like node 0
EncodeNodeSkipRoot(t, plane, lb, bc, d) ==
    IF d = 0 \/ t.head[d] = 0 THEN lb
    ELSE IF IsLeftArc(t, d)
    THEN LET own == lb[d] \o bc[1] \o (IF IsLeftmost(t, plane, d) THEN <<"*">> ELSE <<>>)
             lb1 == [lb EXCEPT ![d] = own]
         IN  [lb1 EXCEPT ![t.head[d]] =
                 IF StrIn(bc[2], lb1[t.head[d]]) THEN @ ELSE @ \o bc[2]]
    ELSE LET own == lb[d] \o bc[3] \o (IF IsRightmost(t, plane, d) THEN <<"*">> ELSE <<>>)
             lb1 == [lb EXCEPT ![d] = own]
         IN  [lb1 EXCEPT ![t.head[d]] =
                 IF StrIn(bc[4], lb1[t.head[d]]) THEN @ ELSE @ \o bc[4]]

\* mutant of EncodeNode: the governor marker is appended for every dependent
EncodeNodeNoGuard(t, plane, lb, bc, d) ==
    IF d = 0 THEN lb
    ELSE IF IsLeftArc(t, d)
    THEN LET own == lb[d] \o bc[1] \o (IF IsLeftmost(t, plane, d) THEN <<"*">> ELSE <<>>)
             lb1 == [lb EXCEPT ![d] = own]
         IN  [lb1 EXCEPT ![t.head[d]] = @ \o bc[2]]
    ELSE LET own == lb[d] \o bc[3] \o (IF IsRightmost(t, plane, d) THEN <<"*">> ELSE <<>>)
             lb1 == [lb EXCEPT ![d] = own]
         IN  [lb1 EXCEPT ![t.head[d]] = @ \o bc[4]]

\* one iteration of the loop of encoding_step, for the node d of the plane
EncodeNode(t, plane, lb, bc, d) ==
    IF d = 0 THEN lb
    ELSE IF IsLeftArc(t, d)
    THEN LET own == lb[d] \o bc[1] \o (IF IsLeftmost(t, plane, d) THEN <<"*">> ELSE <<>>)
             lb1 == [lb EXCEPT ![d] = own]
         IN  [lb1 EXCEPT ![t.head[d]] =
                 IF StrIn(bc[2], lb1[t.head[d]]) THEN @ ELSE @ \o bc[2]]
    ELSE LET own == lb[d] \o bc[3] \o (IF IsRightmost(t, plane, d) THEN <<"*">> ELSE <<>>)
             lb1 == [lb EXCEPT ![d] = own]
         IN  [lb1 EXCEPT ![t.head[d]] =
                 IF StrIn(bc[4], lb1[t.head[d]]) THEN @ ELSE @ \o bc[4]]

RECURSIVE EncodingStepFrom(_, _, _, _, _)
EncodingStepFrom(t, plane, lb, bc, k) ==
    IF k > Len(plane) THEN lb
    ELSE EncodingStepFrom(t, plane, EncodeNode(t, plane, lb, bc, plane[k]), bc, k + 1)

\* encoding_step(plane, labels_brk, brk_chars)
EncodingStep(t, plane, lb, bc) == EncodingStepFrom(t, plane, lb, bc, 1)

\* the rows of the LinearizedTree built by encode: one per node of dep_tree
EncodedRows(t, lb) ==
    [k \in 1..TreeLen(t) |->
        [word |-> WordOf(k - 1), postag |-> UposOf(k - 1),
         xi |-> lb[k - 1], li |-> RelationOf(k - 1)]]

-----------------------------------------------------------------------------
(* decode *)

NoValue == <<"unset">>

\* D_Tree.empty_tree(l): nodes 0..l-1, head 0, nothing else set
EmptyTree(l) ==
    [i \in 0..(l - 1) |->
        [head |-> 0, word |-> NoValue, upos |-> NoValue, relation |-> NoValue]]

\* mutant of AppendBrk: the opening bracket of plane 0 in every pass
AppendBrkPlane0(p) == IF p.direction = "l2r" THEN <<"/", "0">> ELSE <<"\\", "0">>

\* s_append_brk: the opening bracket of a pass
AppendBrk(p) == IF p.direction = "l2r" THEN <<"/", p.planar_idx>>
                                       ELSE <<"\\", p.planar_idx>>

\* mutant of PeekBrk: a pass resolves the tokens of either plane
PeekBrkAnyPlane(p) == IF p.direction = "l2r" THEN <<">">> ELSE <<"<">>

\* s_peek_brk: the resolving bracket of a pass
PeekBrk(p) == IF p.direction = "l2r" THEN <<">", p.planar_idx>>
                                     ELSE <<"<", p.planar_idx>>

\* first value of current_node in a pass over l rows
FirstNode(p, l) == IF p.direction = "l2r" THEN 0 ELSE l - 1

\* order of brks.sort(key = lambda x: (x == "\\" + planar_idx, x))
KeyLess(a, b, idx) ==
    LET ka == (a = <<"\\", idx>>)
        kb == (b = <<"\\", idx>>)
    IN  IF ka # kb THEN kb ELSE StrLess(a, b)

RECURSIVE InsertSorted(_, _, _)
InsertSorted(x, l, idx) ==
    IF l = <<>> THEN <<x>>
    ELSE IF KeyLess(x, Head(l), idx) THEN <<x>> \o l
    ELSE <<Head(l)>> \o InsertSorted(x, Tail(l), idx)

\* the sorted list (the sort is stable: an element goes after its equals)
RECURSIVE SortBrks(_, _)
SortBrks(l, idx) ==
    IF l = <<>> THEN <<>>
    ELSE InsertSorted(l[Len(l)], SortBrks(SubSeq(l, 1, Len(l) - 1), idx), idx)

\* the tokens of a row as the pass reads them: merged, sorted when r2l
RowBrks(xi, p) ==
    LET m == MergeBrackets(IF xi # D_NONE_LABEL THEN ListOfStr(xi) ELSE <<>>)
    IN  IF m.err THEN m
        ELSE [b |-> IF p.direction = "r2l" THEN SortBrks(m.b, p.planar_idx) ELSE m.b,
              err |-> FALSE]

\* mutant of FillFromBrk: the flag does not pop the stack
FillFromBrkNoPop(char, p, cur, st) ==
    LET stack1 == IF StrIn(AppendBrk(p), char) THEN Append(st.stack, cur) ELSE st.stack
    IN  IF StrIn(PeekBrk(p), char)
        THEN [stack |-> stack1,
              head |-> IF Len(stack1) > 0 THEN stack1[Len(stack1)] ELSE 0,
              err |-> FALSE]
        ELSE [stack |-> stack1, head |-> st.head, err |-> FALSE]

\* the body of "for char in brks" for one token; st = [stack, head, err]
FillFromBrk(char, p, cur, st) ==
    LET stack1 == IF StrIn(AppendBrk(p), char) THEN Append(st.stack, cur) ELSE st.stack
    IN  IF StrIn(PeekBrk(p), char)
        THEN LET head_id == IF Len(stack1) > 0 THEN stack1[Len(stack1)] ELSE 0
             IN  IF StrIn(<<"*">>, char)
                 THEN IF Len(stack1) > 0
                      THEN [stack |-> SubSeq(stack1, 1, Len(stack1) - 1),
                            head |-> head_id, err |-> FALSE]
                      ELSE [stack |-> stack1, head |-> head_id, err |-> TRUE]
                 ELSE [stack |-> stack1, head |-> head_id, err |-> FALSE]
        ELSE [stack |-> stack1, head |-> st.head, err |-> FALSE]

RECURSIVE FillFromBrks(_, _, _, _)
FillFromBrks(toks, p, cur, st) ==
    IF toks = <<>> \/ st.err THEN st
    ELSE FillFromBrks(Tail(toks), p, cur, FillFromBrk(Head(toks), p, cur, st))

\* one iteration of the loop over the rows, at current_node = cur;
\* st = [tree, stack, err]
DecodeRow(lt, p, cur, st) ==
    LET row == lt[cur + 1]
        m == RowBrks(row.xi, p)
        node == [st.tree[cur] EXCEPT
                    !.word = row.word, !.upos = row.postag, !.relation = row.li]
        f == FillFromBrks(m.b, p, cur,
                          [stack |-> st.stack, head |-> node.head, err |-> FALSE])
    IN  IF m.err THEN [st EXCEPT !.err = TRUE]
        ELSE [tree |-> [st.tree EXCEPT ![cur] = [node EXCEPT !.head = f.head]],
              stack |-> f.stack, err |-> f.err]

\* lin_tree.iterrows(dir = direction) with current_node stepping along
RECURSIVE DecodeRows(_, _, _, _)
DecodeRows(lt, p, cur, st) ==
    IF st.err \/ cur \notin 0..(Len(lt) - 1) THEN st
    ELSE DecodeRows(lt, p, IF p.direction = "l2r" THEN cur + 1 ELSE cur - 1,
                    DecodeRow(lt, p, cur, st))

\* _decoding_step(lin_tree, decoded_tree, planar_idx, direction):
\* [tree |-> the tree, stack |-> the stack at the end, err |-> raised IndexError]
DecodingStep(lt, tree, p) ==
    DecodeRows(lt, p, FirstNode(p, Len(lt)), [tree |-> tree, stack |-> <<>>, err |-> FALSE])

\* the four _decoding_step calls of decode made in the order ord (indices
\* into Passes); st = [tree, stack, err]
RECURSIVE RunPasses(_, _, _)
RunPasses(lt, st, ord) ==
    IF ord = <<>> \/ st.err THEN st
    ELSE RunPasses(lt, DecodingStep(lt, st.tree, Passes[Head(ord)]), Tail(ord))

\* the 24 orders of the four passes
Orders ==
    { o \in [1..Len(Passes) -> 1..Len(Passes)] :
        \A i \in 1..Len(Passes), j \in 1..Len(Passes) : i # j => o[i] # o[j] }

-----------------------------------------------------------------------------
(* Inputs *)

\* the well-formed trees of at most maxN words
TreesUpTo(maxN) == UNION { WellFormedTrees(n) : n \in 1..maxN }

\* trees that do not have exactly one root-attached node (cycles allowed)
MalformedTrees(n) ==
    { [n |-> n, head |-> h] :
        h \in { f \in [0..n -> 0..n] :
                  /\ f[0] = 0
                  /\ \A i \in 1..n : f[i] # i
                  /\ Cardinality({ i \in 1..n : f[i] = 0 }) # 1 } }

MalformedUpTo(maxN) == UNION { MalformedTrees(n) : n \in 1..maxN }

NoTree == [n |-> 0, head |-> [i \in {0} |-> 0]]

\* the ways of cutting the string s into r rows
RECURSIVE Splits(_, _)
Splits(s, r) ==
    IF r = 0 THEN (IF s = <<>> THEN {<<>>} ELSE {})
    ELSE UNION { { <<SubSeq(s, 1, k)>> \o rest :
                     rest \in Splits(SubSeq(s, k + 1, Len(s)), r - 1) } :
                 k \in 0..Len(s) }

\* the payloads of the label sequences of at most maxRows rows holding at
\* most maxChars bracket characters in all
PayloadsUpTo(maxRows, maxChars) ==
    UNION { Splits(s, r) : s \in StringsUpTo(BrkChars, maxChars), r \in 0..maxRows }

\* the payloads of the label sequences of 1..maxRows rows made of at most
\* maxToks bracket tokens in all, the tokens being those of one plane
TokenPayloadsUpTo(maxRows, maxToks) ==
    { [k \in 1..Len(rows) |-> Concat(rows[k])] :
        rows \in UNION { Splits(s, r) :
                           s \in UNION { StringsUpTo(SeqToSet(BrkCharsOfPlane(q)), maxToks) :
                                           q \in {0, 1} },
                           r \in 1..maxRows } }

RowsOf(xis) ==
    [k \in 1..Len(xis) |->
        [word |-> WordOf(k - 1), postag |-> UposOf(k - 1),
         xi |-> xis[k], li |-> RelationOf(k - 1)]]

\* the lists of at most maxFrag bracket characters
FragmentsUpTo(maxFrag) == { ListOfStr(s) : s \in StringsUpTo(BrkChars, maxFrag) }

-----------------------------------------------------------------------------
(* MultitaskDataloader (hfmtl/models.py) *)

\* the tasks, in the order of the keys of dataloader_dict
TaskNames == <<"task_a", "task_b">>

TaskSet == SeqToSet(TaskNames)

\* x ** e for a natural exponent
RECURSIVE Pow(_, _)
Pow(x, e) == IF e = 0 THEN 1 ELSE x * Pow(x, e - 1)

\* max of a non-empty set of numbers
Max(S) == CHOOSE x \in S : \A y \in S : x >= y

RECURSIVE Sum(_, _)
Sum(f, S) ==
    IF S = {} THEN 0
    ELSE LET x == CHOOSE y \in S : TRUE IN f[x] + Sum(f, S \ {x})

\* f_p = lambda x: int(N*x**p), with N = max(len(x)**(1-p))
F_p(dd, p, x) ==
    LET N == Max({ Pow(dd[t].len, 1 - p) : t \in TaskSet })
    IN  N * Pow(x, p)

\* MultitaskDataloader.__init__(dataloader_dict, p): the fields of self; dd
\* gives for every task len(dataloader) and len(dataloader.dataset)
MultitaskDataloaderInit(dd, p) ==
    [dataloader_dict |-> dd,
     p |-> p,
     num_batches_dict |-> [t \in TaskSet |-> F_p(dd, p, dd[t].len)],
     task_name_list |-> TaskNames,
     dataset_len |-> Sum([t \in TaskSet |-> F_p(dd, p, dd[t].dataset_len)], TaskSet)]

\* MultitaskDataloader.__len__
LenOfLoader(self) == Sum(self.num_batches_dict, TaskSet)

\* the outcomes of np.random.shuffle on the list holding the index i of each
\* task num[i] times
RECURSIVE Shuffles(_)
Shuffles(num) ==
    IF \A i \in DOMAIN num : num[i] = 0 THEN {<<>>}
    ELSE UNION { { <<i>> \o rest : rest \in Shuffles([num EXCEPT ![i] = @ - 1]) } :
                 i \in { j \in DOMAIN num : num[j] > 0 } }

\* data loaders of one batch per example, of 1..maxBatches batches each
LoaderDicts(maxBatches) ==
    [TaskSet -> { [len |-> n, dataset_len |-> n] : n \in 1..maxBatches }]

NoLoader == [dataloader_dict |-> <<>>]

NoIteration == [task_choice_list |-> <<>>]

-----------------------------------------------------------------------------
(* Actions *)

Idle ==
    /\ p1_nodes = <<>> /\ p2_nodes = <<>>
    /\ labels_brk = <<>>
    /\ decoded_tree = <<>>
    /\ pass = 0 /\ stack = <<>>
    /\ raised = "none"
    /\ dataloader = NoLoader /\ iteration = NoIteration

\* encode, from the planes the partition returned to the LinearizedTree
EncodeWith(planes) ==
    LET lb0 == [i \in 0..TreeLen(dep_tree) |-> <<>>]
        lb1 == EncodingStep(dep_tree, planes.p1_nodes, lb0, BrkCharsOfPlane(0))
        lb2 == EncodingStep(dep_tree, planes.p2_nodes, lb1, BrkCharsOfPlane(1))
    IN  /\ p1_nodes' = planes.p1_nodes
        /\ p2_nodes' = planes.p2_nodes
        /\ labels_brk' = lb2
        /\ lin_tree' = EncodedRows(dep_tree, lb2)
        /\ pc' = "decode"
        /\ UNCHANGED <<planar_alg, dep_tree, decoded_tree, pass, stack, raised,
                       brks, merged, dataloader, iteration>>

\* encode with planar_alg == D_2P_GREED
EncodeGreedy ==
    /\ pc = "encode" /\ planar_alg = D_2P_GREED
    /\ \E planes \in {TwoPlanarGreedy(dep_tree)} : EncodeWith(planes)

\* encode with planar_alg == D_2P_PROP
EncodePropagate ==
    /\ pc = "encode" /\ planar_alg = D_2P_PROP
    /\ \E seeds \in SeedChoices(dep_tree) :
         \E planes \in {TwoPlanarPropagate(dep_tree, seeds)} : EncodeWith(planes)

\* decode: the empty tree
DecodeStart ==
    /\ pc = "decode"
    /\ decoded_tree' = EmptyTree(Len(lin_tree))
    /\ pass' = 1
    /\ pc' = "pass"
    /\ UNCHANGED <<planar_alg, dep_tree, p1_nodes, p2_nodes, labels_brk,
                   lin_tree, stack, raised, brks, merged, dataloader, iteration>>

\* decode: the next of the four calls of _decoding_step; after the last one
\* decode returns the tree
DecodingStepCall ==
    /\ pc = "pass"
    /\ \E r \in {DecodingStep(lin_tree, decoded_tree, Passes[pass])} :
           /\ decoded_tree' = r.tree
           /\ stack' = r.stack
           /\ raised' = IF r.err THEN "IndexError" ELSE "none"
           /\ pc' = IF r.err THEN "raised"
                    ELSE IF pass < Len(Passes) THEN "pass" ELSE "done"
           /\ pass' = IF ~r.err /\ pass < Len(Passes) THEN pass + 1 ELSE pass
    /\ UNCHANGED <<planar_alg, dep_tree, p1_nodes, p2_nodes, labels_brk,
                   lin_tree, brks, merged, dataloader, iteration>>

\* decode with its four passes made in any order
DecodeAnyOrder ==
    /\ pc = "decode"
    /\ \E ord \in Orders :
         \E r \in {RunPasses(lin_tree,
                             [tree |-> EmptyTree(Len(lin_tree)), stack |-> <<>>,
                              err |-> FALSE], ord)} :
           /\ decoded_tree' = r.tree
           /\ stack' = r.stack
           /\ raised' = IF r.err THEN "IndexError" ELSE "none"
           /\ pc' = IF r.err THEN "raised" ELSE "done"
           /\ pass' = Len(Passes)
    /\ UNCHANGED <<planar_alg, dep_tree, p1_nodes, p2_nodes, labels_brk,
                   lin_tree, brks, merged, dataloader, iteration>>

\* _merge_brackets applied to the fragment, then to its own result
MergeCall ==
    /\ pc = "merge"
    /\ \E r \in {MergeBrackets(IF merged = <<>> THEN brks ELSE merged[Len(merged)].b)} :
           /\ merged' = Append(merged, r)
           /\ raised' = IF r.err THEN "IndexError" ELSE "none"
           /\ pc' = IF r.err THEN "raised"
                    ELSE IF Len(merged) = 1 THEN "merged" ELSE "merge"
    /\ UNCHANGED <<planar_alg, dep_tree, p1_nodes, p2_nodes, labels_brk,
                   lin_tree, decoded_tree, pass, stack, brks, dataloader,
                   iteration>>

\* MultitaskDataloader.__iter__, up to its loop: the shuffled list of task
\* choices and a fresh iterator on every task's loader (position 0)
Iter ==
    /\ pc = "loader"
    /\ \E task_choice_list \in
           Shuffles([i \in 1..Len(dataloader.task_name_list) |->
                        dataloader.num_batches_dict[dataloader.task_name_list[i]]]) :
         iteration' = [task_choice_list |-> task_choice_list,
                       dataloader_iter_dict |-> [t \in TaskSet |-> 0],
                       yielded |-> <<>>]
    /\ pc' = "iterating"
    /\ UNCHANGED <<planar_alg, dep_tree, p1_nodes, p2_nodes, labels_brk, lin_tree,
                   decoded_tree, pass, stack, raised, brks, merged, dataloader>>

\* one next() on the generator: the loop takes the next task choice and
\* yields next(dataloader_iter_dict[task_name]), which raises StopIteration
\* when that loader has no batch left; after the last choice the generator
\* returns
NextBatch ==
    /\ pc = "iterating"
    /\ IF iteration.task_choice_list = <<>>
       THEN /\ pc' = "done"
            /\ UNCHANGED <<iteration, raised>>
       ELSE LET task_name == dataloader.task_name_list[Head(iteration.task_choice_list)]
                at == iteration.dataloader_iter_dict[task_name]
            IN  IF at < dataloader.dataloader_dict[task_name].len
                THEN /\ iteration' =
                          [task_choice_list |-> Tail(iteration.task_choice_list),
                           dataloader_iter_dict |->
                               [iteration.dataloader_iter_dict EXCEPT ![task_name] = at + 1],
                           yielded |-> Append(iteration.yielded, <<task_name, at>>)]
                     /\ pc' = "iterating"
                     /\ raised' = "none"
                ELSE /\ raised' = "StopIteration"
                     /\ pc' = "raised"
                     /\ UNCHANGED iteration
    /\ UNCHANGED <<planar_alg, dep_tree, p1_nodes, p2_nodes, labels_brk, lin_tree,
                   decoded_tree, pass, stack, brks, merged, dataloader>>

-----------------------------------------------------------------------------
(* Specifications *)

\* encode a well-formed tree, then decode what encode returned
Init ==
    /\ pc = "encode"
    /\ planar_alg \in {D_2P_GREED, D_2P_PROP}
    /\ dep_tree \in TreesUpTo(MaxN)
    /\ lin_tree = <<>>
    /\ brks = <<>> /\ merged = <<>>
    /\ Idle

Next ==
    \/ EncodeGreedy
    \/ EncodePropagate
    \/ DecodeStart
    \/ DecodingStepCall

Spec == Init /\ [][Next]_vars

\* encode a tree with no or several root-attached nodes, then decode
InitMal ==
    /\ pc = "encode"
    /\ planar_alg \in {D_2P_GREED, D_2P_PROP}
    /\ dep_tree \in MalformedUpTo(MaxMalN)
    /\ lin_tree = <<>>
    /\ brks = <<>> /\ merged = <<>>
    /\ Idle

SpecMal == InitMal /\ [][Next]_vars

\* decode a label sequence with arbitrary bracket payloads
InitDec ==
    /\ pc = "decode"
    /\ planar_alg = D_2P_GREED
    /\ dep_tree = NoTree
    /\ lin_tree \in { RowsOf(xis) : xis \in PayloadsUpTo(MaxRows, MaxChars) }
    /\ brks = <<>> /\ merged = <<>>
    /\ Idle

NextDec ==
    \/ DecodeStart
    \/ DecodingStepCall

SpecDec == InitDec /\ [][NextDec]_vars

\* decode, in any order of its passes, a label sequence built from tokens
InitOrd ==
    /\ pc = "decode"
    /\ planar_alg = D_2P_GREED
    /\ dep_tree = NoTree
    /\ lin_tree \in { RowsOf(xis) : xis \in TokenPayloadsUpTo(MaxOrdRows, MaxOrdToks) }
    /\ brks = <<>> /\ merged = <<>>
    /\ Idle

NextOrd == DecodeAnyOrder

SpecOrd == InitOrd /\ [][NextOrd]_vars

\* one iteration over a MultitaskDataloader built with p = 0 (the default
\* of the Trainer) or p = 1
InitMTL ==
    /\ pc = "loader"
    /\ dataloader \in { MultitaskDataloaderInit(dd, p) :
                          dd \in LoaderDicts(MaxBatches), p \in {0, 1} }
    /\ iteration = NoIteration
    /\ planar_alg = D_2P_GREED
    /\ dep_tree = NoTree
    /\ p1_nodes = <<>> /\ p2_nodes = <<>> /\ labels_brk = <<>>
    /\ lin_tree = <<>> /\ decoded_tree = <<>>
    /\ pass = 0 /\ stack = <<>>
    /\ raised = "none"
    /\ brks = <<>> /\ merged = <<>>

NextMTL ==
    \/ Iter
    \/ NextBatch

SpecMTL == InitMTL /\ [][NextMTL]_vars

\* _merge_brackets on an arbitrary list of bracket characters
InitMerge ==
    /\ pc = "merge"
    /\ planar_alg = D_2P_GREED
    /\ dep_tree = NoTree
    /\ lin_tree = <<>>
    /\ brks \in FragmentsUpTo(MaxFrag)
    /\ merged = <<>>
    /\ Idle

NextMerge == MergeCall

SpecMerge == InitMerge /\ [][NextMerge]_vars

-----------------------------------------------------------------------------
(* Properties of encode followed by decode *)

\* the arcs the partition placed in neither plane
Unencodable == Deps(dep_tree) \ (SeqToSet(p1_nodes) \cup SeqToSet(p2_nodes))

Encoded == pc \notin {"encode", "merge"} /\ dep_tree # NoTree

CrossingPairs(t) == { pr \in Deps(t) \X Deps(t) : pr[1] < pr[2] /\ Cross(t, pr[1], pr[2]) }

\* the node the tree given to encode has at id i, as decode should rebuild it
OriginalNode(i) ==
    [head |-> dep_tree.head[i], word |-> WordOf(i), upos |-> UposOf(i),
     relation |-> RelationOf(i)]

\* C1: round trip. When the partition left no arc unencodable, the tree
\* returned by decode has the nodes of the encoded tree, each with the same
\* head, word, tag and relation.
C1_RoundTrip ==
    (pc = "done" /\ dep_tree # NoTree /\ Unencodable = {}) =>
        /\ DOMAIN decoded_tree = 0..dep_tree.n
        /\ \A i \in 1..dep_tree.n : decoded_tree[i] = OriginalNode(i)

\* a tree with crossing arcs went through encode and decode and came back
C1_Witness ==
    /\ pc = "done" /\ dep_tree # NoTree /\ Unencodable = {}
    /\ p2_nodes # <<>>
    /\ dep_tree.n = MaxN
    /\ \A i \in 1..dep_tree.n : decoded_tree[i] = OriginalNode(i)

\* the planes as sets of arcs
Plane(p) == IF p = 0 THEN SeqToSet(p1_nodes) ELSE SeqToSet(p2_nodes)

NoDuplicates(sq) == \A i \in 1..Len(sq), j \in 1..Len(sq) : sq[i] = sq[j] => i = j

\* C7: partition contract. Under either policy every arc is in exactly one
\* of plane 0, plane 1 and the unencodable arcs, and no two arcs of one plane
\* cross; arcs that do not cross may share a plane.
C7_PartitionContract ==
    Encoded =>
        /\ NoDuplicates(p1_nodes) /\ NoDuplicates(p2_nodes)
        /\ Plane(0) \subseteq Deps(dep_tree) /\ Plane(1) \subseteq Deps(dep_tree)
        /\ Plane(0) \cap Plane(1) = {}
        /\ CrossingFree(dep_tree, Plane(0))
        /\ CrossingFree(dep_tree, Plane(1))

\* a partition that uses both planes and leaves an arc out, with two arcs of
\* plane 0 sharing an endpoint
C7_Witness ==
    /\ Encoded
    /\ Plane(1) # {} /\ Unencodable # {}
    /\ \E a \in Plane(0), b \in Plane(0) : a # b /\ dep_tree.head[a] = b

\* C8: greedy policy. In ascending order of dependent, an arc goes to plane 0
\* iff it crosses no earlier arc of plane 0, to plane 1 iff it crosses an
\* earlier arc of plane 0 and none of plane 1, and is unencodable iff it
\* crosses an earlier arc of each plane.  With exactly one crossing pair the
\* two arcs are in different planes, no arc is unencodable and decode gives
\* both dependents their heads.
C8_GreedyPolicy ==
    (Encoded /\ planar_alg = D_2P_GREED) =>
        /\ \A a \in Deps(dep_tree) :
             LET c0 == CrossesAny(dep_tree, a, { b \in Plane(0) : b < a })
                 c1 == CrossesAny(dep_tree, a, { b \in Plane(1) : b < a })
             IN  /\ a \in Plane(0) <=> ~c0
                 /\ a \in Plane(1) <=> (c0 /\ ~c1)
                 /\ a \in Unencodable <=> (c0 /\ c1)
        /\ \A pr \in CrossingPairs(dep_tree) :
             Cardinality(CrossingPairs(dep_tree)) = 1 =>
                 /\ Unencodable = {}
                 /\ (pr[1] \in Plane(0)) # (pr[2] \in Plane(0))
                 /\ pc = "done" =>
                      /\ decoded_tree[pr[1]].head = dep_tree.head[pr[1]]
                      /\ decoded_tree[pr[2]].head = dep_tree.head[pr[2]]

\* a tree of four words with one crossing pair, encoded greedily and decoded
C8_Witness ==
    /\ pc = "done" /\ planar_alg = D_2P_GREED
    /\ dep_tree.n = 4
    /\ Cardinality(CrossingPairs(dep_tree)) = 1
    /\ \A pr \in CrossingPairs(dep_tree) :
         /\ (pr[1] \in Plane(0)) # (pr[2] \in Plane(0))
         /\ decoded_tree[pr[1]].head = dep_tree.head[pr[1]]
         /\ decoded_tree[pr[2]].head = dep_tree.head[pr[2]]

\* the payload holds a token of plane 1
HasPlane1Token(xi) == \E k \in 1..4 : StrIn(BrkCharsOfPlane(1)[k], xi)

\* C9: projective case. When no two arcs of the tree cross, under either
\* policy every arc is in plane 0 and no payload holds a plane-1 token.
C9_ProjectiveCase ==
    (Encoded /\ CrossingPairs(dep_tree) = {}) =>
        /\ Plane(0) = Deps(dep_tree)
        /\ Plane(1) = {}
        /\ \A k \in 1..Len(lin_tree) :
             ~StrIn(<<"1">>, lin_tree[k].xi) /\ ~HasPlane1Token(lin_tree[k].xi)

\* a projective tree of the largest size, encoded with the propagate policy
C9_Witness ==
    /\ Encoded /\ planar_alg = D_2P_PROP
    /\ CrossingPairs(dep_tree) = {}
    /\ dep_tree.n = MaxN
    /\ \A k \in 2..Len(lin_tree) : lin_tree[k].xi # <<>>

\* the dependents of governor g in plane p, to its left or to its right
Group(g, left, p) ==
    { d \in Plane(p) : dep_tree.head[d] = g /\ (d < g) = left }

\* the dependent token of node d for plane p carries the flag
Flagged(d, left, p) ==
    LET digit == IF p = 0 THEN "0" ELSE "1"
    IN  StrIn(<<IF left THEN "<" ELSE ">", digit, "*">>, lin_tree[d + 1].xi)

Least(S) == CHOOSE x \in S : \A y \in S : x <= y
Greatest(S) == CHOOSE x \in S : \A y \in S : x >= y

\* C10: uniqueness of boundary flags. In the output of encode, for every
\* governor, direction and plane with at least one arc, exactly one dependent
\* carries the flag: the smallest for left arcs, the largest for right arcs.
C10_BoundaryFlags ==
    Encoded =>
        \A g \in 0..dep_tree.n, left \in BOOLEAN, p \in {0, 1} :
            Group(g, left, p) # {} =>
                { d \in Group(g, left, p) : Flagged(d, left, p) } =
                    { IF left THEN Least(Group(g, left, p))
                              ELSE Greatest(Group(g, left, p)) }

\* a governor with two dependents on the same side in plane 1, and one with
\* two in plane 0
C10_Witness ==
    /\ Encoded
    /\ \E g \in 0..dep_tree.n, left \in BOOLEAN : Cardinality(Group(g, left, 1)) >= 2
    /\ \E g \in 0..dep_tree.n, left \in BOOLEAN : Cardinality(Group(g, left, 0)) >= 2

-----------------------------------------------------------------------------
(* The virtual root in encode *)

\* the root-attached node of the encoded tree
RootNode == CHOOSE r \in Deps(dep_tree) : dep_tree.head[r] = 0

\* the payload holds a dependent token (of either plane, either direction)
HasDependentToken(xi) == StrIn(<<"<">>, xi) \/ StrIn(<<">">>, xi)

\* the tree with heads [2, 0, 2]
IsTree202 ==
    dep_tree.n = 3 /\ dep_tree.head[1] = 2 /\ dep_tree.head[2] = 0 /\ dep_tree.head[3] = 2

-----------------------------------------------------------------------------
(* Governor markers *)

\* number of occurrences of the two-character token pat in the payload xi
Occurrences(pat, xi) ==
    Cardinality({ k \in 1..(Len(xi) - 1) : SubSeq(xi, k, k + 1) = pat })

\* C18: in encode's output the fragment of every node holds "\p" at most
\* once and "/p" at most once for each plane p, and holds it exactly when the
\* node has at least one left (resp. right) dependent in plane p.
C18_GovernorMarkersOnce ==
    Encoded =>
        \A g \in 0..dep_tree.n, p \in {0, 1} :
            \E bc \in {BrkCharsOfPlane(p)} :
                /\ Occurrences(bc[2], lin_tree[g + 1].xi) =
                       (IF Group(g, TRUE, p) # {} THEN 1 ELSE 0)
                /\ Occurrences(bc[4], lin_tree[g + 1].xi) =
                       (IF Group(g, FALSE, p) # {} THEN 1 ELSE 0)

\* a governor with two left dependents in a plane, and one with two right
\* dependents in plane 1, have been encoded
C18_Witness ==
    /\ Encoded
    /\ \E g \in 0..dep_tree.n, p \in {0, 1} : Cardinality(Group(g, TRUE, p)) >= 2
    /\ \E g \in 0..dep_tree.n : Cardinality(Group(g, FALSE, 1)) >= 2

-----------------------------------------------------------------------------
(* Stack discipline of the decoding passes on encode's output *)

\* the tokens of one row walked as FillFromBrks walks them, with the stack
\* looked at around every resolving token; st = [stack, ok]
RECURSIVE TokensDiscipline(_, _, _, _)
TokensDiscipline(toks, p, cur, st) ==
    IF toks = <<>> THEN st
    ELSE LET char == Head(toks)
             pushed == IF StrIn(AppendBrk(p), char) THEN Append(st.stack, cur) ELSE st.stack
             resolves == StrIn(PeekBrk(p), char)
             pops == resolves /\ StrIn(<<"*">>, char)
             f == FillFromBrk(char, p, cur,
                              [stack |-> st.stack, head |-> 0, err |-> FALSE])
         IN    TokensDiscipline(Tail(toks), p, cur,
                  [stack |-> f.stack,
                   ok |-> /\ st.ok
                          /\ ~f.err
                          /\ resolves =>
                               /\ Len(pushed) > 0
                               /\ pushed[Len(pushed)] = dep_tree.head[cur]
                               /\ f.head = dep_tree.head[cur]
                          /\ pops => f.stack = SubSeq(pushed, 1, Len(pushed) - 1)
                          /\ ~pops => f.stack = pushed])

\* the rows of one pass, from current_node = cur on
RECURSIVE RowsDiscipline(_, _, _)
RowsDiscipline(p, cur, st) ==
    IF cur \notin 0..(Len(lin_tree) - 1) THEN st
    ELSE LET m == RowBrks(lin_tree[cur + 1].xi, p)
         IN  RowsDiscipline(p, IF p.direction = "l2r" THEN cur + 1 ELSE cur - 1,
                            TokensDiscipline(m.b, p, cur, [st EXCEPT !.ok = @ /\ ~m.err]))

PassDiscipline(p) ==
    RowsDiscipline(p, FirstNode(p, Len(lin_tree)), [stack |-> <<>>, ok |-> TRUE])

\* C19: on the output of encode for a tree without unencodable arc, in each
\* of the four passes the stack is non-empty at every resolving token and its
\* top is the governor of the node in the tree, every pop on "*" removes
\* exactly that governor, and the stack is empty when the pass ends (looked
\* at pass by pass once decode has returned, and in the stack each pass
\* leaves behind).
C19_StackDiscipline ==
    (Encoded /\ Unencodable = {}) =>
        /\ pc = "done" =>
             \A k \in 1..Len(Passes) :
                 \E r \in {PassDiscipline(Passes[k])} : r.ok /\ r.stack = <<>>
        /\ pc \in {"pass", "done"} => stack = <<>>
        /\ raised = "none"

\* a tree with arcs in both planes and a governor of two right dependents has
\* been encoded without loss and decoded by the four passes
C19_Witness ==
    /\ Encoded /\ Unencodable = {} /\ pc = "done"
    /\ Plane(1) # {}
    /\ \E g \in 0..dep_tree.n, p \in {0, 1} : Cardinality(Group(g, FALSE, p)) >= 2
    /\ \E g \in 0..dep_tree.n, p \in {0, 1} : Cardinality(Group(g, TRUE, p)) >= 2

-----------------------------------------------------------------------------
(* Unencodable arcs *)

\* what encode reports about the arcs the partition left out: the partition
\* call binds two planes only, no warning is issued and encode returns the
\* LinearizedTree alone
UnencodableReported == {}

\* the parts of C13 about the labels and the decoded heads
UnencodableAbsorbed ==
    /\ raised = "none"
    /\ Len(lin_tree) = TreeLen(dep_tree)
    /\ \A d \in Unencodable :
         /\ ~HasDependentToken(lin_tree[d + 1].xi)
         /\ pc = "done" => decoded_tree[d].head = 0

\* C13: when the partition leaves arcs unencodable encode still returns one
\* label per node, the dependent of a dropped arc has no dependent token,
\* decode gives it head 0, and the unencodable set is reported to the caller.
C13_UnencodableReported ==
    (Encoded /\ Unencodable # {}) =>
        /\ UnencodableAbsorbed
        /\ UnencodableReported = Unencodable

-----------------------------------------------------------------------------
(* The propagate policy *)

\* the component of the conflict graph has a proper 2-colouring
TwoColourable(t, comp) ==
    \E col \in [comp -> {0, 1}] :
        \A a \in comp, b \in comp : Cross(t, a, b) => col[a] # col[b]

\* C14: when encode returns under the propagate policy (the state in which
\* decode has not started), every 2-colourable component of the
\* conflict graph is placed whole, its crossing arcs in opposite planes; a
\* component with an odd cycle of crossings gets the greedy rule over its own
\* arcs; both planes are crossing-free in every case.  Hence a tree whose
\* whole conflict graph is 2-colourable has no unencodable arc.
C14_PropagatePolicy ==
    (Encoded /\ pc = "decode" /\ planar_alg = D_2P_PROP) =>
        /\ CrossingFree(dep_tree, Plane(0)) /\ CrossingFree(dep_tree, Plane(1))
        /\ \A comp \in Components(dep_tree) :
             IF TwoColourable(dep_tree, comp)
             THEN /\ comp \cap Unencodable = {}
                  /\ \A a \in comp, b \in comp :
                       Cross(dep_tree, a, b) => (a \in Plane(0)) # (b \in Plane(0))
             ELSE \E g \in {GreedyOver(dep_tree, SortedSeq(comp), {}, {})} :
                       /\ Plane(0) \cap comp = g.p0
                       /\ Plane(1) \cap comp = g.p1
        /\ (\A comp \in Components(dep_tree) : TwoColourable(dep_tree, comp))
               => Unencodable = {}

\* a 2-colourable tree that the greedy rule cannot place whole has been
\* partitioned by propagation
C14_Witness ==
    /\ Encoded /\ pc = "decode" /\ planar_alg = D_2P_PROP
    /\ \A comp \in Components(dep_tree) : TwoColourable(dep_tree, comp)
    /\ Unencodable = {}
    /\ \E g \in {TwoPlanarGreedy(dep_tree)} :
           Len(g.p1_nodes) + Len(g.p2_nodes) < dep_tree.n

-----------------------------------------------------------------------------
(* encode on malformed trees *)

RootAttached(t) == { i \in Deps(t) : t.head[i] = 0 }

\* C12: when the tree does not have exactly one root-attached node, encode
\* fails with MalformedTreeError and returns no LinearizedTree.
C12_MalformedRejected ==
    (pc # "encode" /\ dep_tree # NoTree /\ Cardinality(RootAttached(dep_tree)) # 1)
        => (raised = "MalformedTreeError" /\ lin_tree = <<>>)

-----------------------------------------------------------------------------
(* Properties of decode on arbitrary label sequences *)

\* C2: decode never fails on malformed bracket tokens. For a label sequence
\* of at least one row with arbitrary payloads, the merge of the tokens and
\* the four passes complete without raising (a resolving token met with an
\* empty stack gives head 0 and the pass goes on).
C2_DecodeNeverFails ==
    Len(lin_tree) >= 1 => (raised = "none" /\ pc # "raised")

\* the words of the decoded tree (node 0 is the dummy root)
DecodedWords == DOMAIN decoded_tree \ {0}

\* C3: the decoder returns a well-formed tree. For a label sequence of at
\* least one row, the tree returned has exactly one word with head 0, every
\* head is a node of the tree, and no word is its own ancestor.
C3_DecodedWellFormed ==
    (pc = "done" /\ DecodedWords # {}) =>
        /\ Cardinality({ i \in DecodedWords : decoded_tree[i].head = 0 }) = 1
        /\ \A i \in DecodedWords : decoded_tree[i].head \in DOMAIN decoded_tree
        /\ \A i \in DecodedWords :
             ReachesRoot([j \in DOMAIN decoded_tree |-> decoded_tree[j].head], i,
                         Cardinality(DecodedWords))

\* C4: decode of a zero-length label sequence fails with EmptyInputError and
\* returns no tree.
C4_EmptyInputError ==
    Len(lin_tree) = 0 => pc # "done"

\* C15: in every pass, a node whose fragment holds both the resolving token
\* and the opening token of the pass, in whichever order, gets its head from
\* the stack as it stood before the node pushed its own id; hence no node
\* (row 1 and after) is ever assigned itself as head.
C15_ResolveBeforePush ==
    pc \in {"pass", "done"} =>
        \A i \in 1..(Len(lin_tree) - 1) : decoded_tree[i].head # i

\* decode as the code orders its passes
CanonicalDecode ==
    RunPasses(lin_tree,
              [tree |-> EmptyTree(Len(lin_tree)), stack |-> <<>>, err |-> FALSE],
              <<1, 2, 3, 4>>)

ResolvingPasses(xi) ==
    { k \in 1..4 :
        \E m \in {MergeBrackets(ListOfStr(xi))} :
            \E tok \in SeqToSet(m.b) :
                StrIn(<< <<">", "0">>, <<"<", "0">>, <<">", "1">>, <<"<", "1">> >>[k], tok) }

OnePassPerRow ==
    \A k \in 1..Len(lin_tree) : Cardinality(ResolvingPasses(lin_tree[k].xi)) <= 1

C17_DecodeIdMapping ==
    pc = "done" =>
        /\ DOMAIN decoded_tree = 1..Len(lin_tree)
        /\ \A i \in DOMAIN decoded_tree \cap (1..Len(lin_tree)) :
             /\ decoded_tree[i].word = lin_tree[i].word
             /\ ResolvingPasses(lin_tree[i].xi) = {} => decoded_tree[i].head = 0

-----------------------------------------------------------------------------
(* Properties of _merge_brackets *)

\* C5: idempotence of merge. For every list of bracket characters,
\* _merge_brackets applied to its own result returns that result.
C5_MergeIdempotent ==
    Len(merged) = 2 => (~merged[2].err /\ merged[2].b = merged[1].b)

\* C6: merge preserves token order and loses nothing. For every list of
\* bracket characters, the tokens _merge_brackets returns, concatenated in
\* order, are the fragment: every character stays with the boundary
\* character before it.
C6_MergePreservesOrder ==
    (Len(merged) >= 1 /\ ~merged[1].err) => Concat(merged[1].b) = Concat(brks)

-----------------------------------------------------------------------------
(* Properties of MultitaskDataloader *)

\* the batches task t has contributed so far
YieldedOf(t) == { k \in 1..Len(iteration.yielded) : iteration.yielded[k][1] = t }

\* C20: for p in {0, 1} and loaders of at least one batch each, one full
\* iteration yields exactly len(self) batches, num_batches_dict[task] of
\* them from each task, and never asks a loader for a batch it does not
\* have: num_batches_dict[task] never exceeds the loader's number of batches.
C20_IterationCompletes ==
    pc \in {"iterating", "done", "raised"} =>
        /\ raised = "none"
        /\ \A t \in TaskSet :
             dataloader.num_batches_dict[t] <= dataloader.dataloader_dict[t].len
        /\ pc = "done" =>
             /\ Len(iteration.yielded) = LenOfLoader(dataloader)
             /\ \A t \in TaskSet :
                  Cardinality(YieldedOf(t)) = dataloader.num_batches_dict[t]

====
